---- MODULE Spec2Model ----
(***************************************************************************)
(* Model of src/builtins/encoding.rs: the registry of encoding builtins    *)
(* (base64, base64url, hex, urlquery, json, yaml, json schema) and the     *)
(* body of every registered function.                                      *)
(*                                                                         *)
(* Text is modelled as the sequence of its UTF-8 bytes.  A call returns a  *)
(* record [out, steps]: out is Ok(value) or Err(error), steps the sequence *)
(* of operations the body executed, in order.                              *)
(***************************************************************************)
EXTENDS Integers, Sequences, FiniteSets, TLC

VARIABLES features, registry, pc, call, result

vars == <<features, registry, pc, call, result>>

(***************************************************************************)
(* Bounds                                                                  *)
(***************************************************************************)
\* longest plain text (in characters) handed to the encoders
MaxChars == 2
\* longest argument list tried against a builtin
MaxArgs == 3
\* most key=value pairs in a generated query text
MaxPairs == 2

(***************************************************************************)
(* Text                                                                    *)
(***************************************************************************)
\* the printable ASCII characters 32..95 and 97..126
PrintableLow ==
  " !\"#$%&'()*+,-./0123456789:;<=>?@ABCDEFGHIJKLMNOPQRSTUVWXYZ[\\]^_"
PrintableHigh == "abcdefghijklmnopqrstuvwxyz{|}~"

Code(c) ==
  IF \E i \in 1..Len(PrintableLow) : SubSeq(PrintableLow, i, i) = c
  THEN 31 + (CHOOSE i \in 1..Len(PrintableLow) : SubSeq(PrintableLow, i, i) = c)
  ELSE 96 + (CHOOSE i \in 1..Len(PrintableHigh) : SubSeq(PrintableHigh, i, i) = c)

Text(s) == [i \in 1..Len(s) |-> Code(SubSeq(s, i, i))]

RECURSIVE Concat(_)
Concat(ss) == IF ss = <<>> THEN <<>> ELSE Head(ss) \o Concat(Tail(ss))

\* position of the first occurrence of byte c in s at or after i, 0 if none
RECURSIVE Find(_, _, _)
Find(s, c, i) ==
  IF i > Len(s) THEN 0 ELSE IF s[i] = c THEN i ELSE Find(s, c, i + 1)

\* str::cmp: bytewise lexicographic order
RECURSIVE StrLess(_, _)
StrLess(a, b) ==
  IF b = <<>> THEN FALSE
  ELSE IF a = <<>> THEN TRUE
  ELSE IF Head(a) # Head(b) THEN Head(a) < Head(b)
  ELSE StrLess(Tail(a), Tail(b))

\* the bytes of the characters the formats below are written with
Ch ==
  [pad |-> Code("="),
   quote |-> Code("\""),
   backslash |-> Code("\\"),
   minus |-> Code("-"),
   slash |-> Code("/"),
   comma |-> Code(","),
   colon |-> Code(":"),
   lbracket |-> Code("["),
   rbracket |-> Code("]"),
   lbrace |-> Code("{"),
   rbrace |-> Code("}"),
   n |-> Code("n"),
   apostrophe |-> Code("'"),
   question |-> Code("?"),
   hash |-> Code("#"),
   plus |-> Code("+"),
   percent |-> Code("%"),
   equals |-> Code("="),
   ampersand |-> Code("&"),
   newline |-> 10]

\* the texts of the tokens of JSON and YAML
Tok ==
  [null |-> Text("null"),
   true |-> Text("true"),
   false |-> Text("false"),
   tilde |-> Text("~"),
   dash |-> Text("- "),
   colon |-> Text(": "),
   empty_seq |-> Text("[]"),
   empty_map |-> Text("{}")]

\* the messages of the errors of the libraries
LibMsg ==
  [length |-> Text("invalid length"),
   symbol |-> Text("invalid symbol"),
   trailing |-> Text("non-zero trailing bits"),
   padding |-> Text("invalid padding"),
   json_syntax |-> Text("json syntax error"),
   yaml_syntax |-> Text("yaml syntax error"),
   bad_schema |-> Text("schema document is not valid under its meta-schema"),
   false_schema |-> Text("false schema does not allow the instance"),
   wrong_type |-> Text("instance is not of the required type")]

(***************************************************************************)
(* Value, Result, Span                                                     *)
(***************************************************************************)
Null == [t |-> "Null"]
Bool(b) == [t |-> "Bool", v |-> b]
Number(n) == [t |-> "Number", v |-> n]
String(s) == [t |-> "String", v |-> s]
\* Value::from_array
Array(a) == [t |-> "Array", v |-> a]
\* an object is the sequence of its <<key, value>> entries in key order
Object(m) == [t |-> "Object", v |-> m]

Ok(v) == [ok |-> TRUE, v |-> v]
Err(e) == [ok |-> FALSE, e |-> e]

CallSpan == <<"call">>
ParamSpan(i) == <<"param", i>>
NoSpan == <<"none">>

\* Span::error(msg): the message anchored to the span
SpanError(kind, span, msg) == [kind |-> kind, span |-> span, msg |-> msg]
\* an error of a library, which carries no span
LibError(kind, msg) == [kind |-> kind, span |-> NoSpan, msg |-> msg]
\* Display of an error (e.to_string())
Display(e) == e.msg

Done(steps, out) == [out |-> out, steps |-> steps]

(***************************************************************************)
(* builtins::utils                                                         *)
(***************************************************************************)
ensure_args_count(name, args, expected) ==
  IF Len(args) # expected
  THEN Err([kind |-> "ArityError", span |-> CallSpan, name |-> name,
            expected |-> expected, actual |-> Len(args)])
  ELSE Ok(Null)

ensure_string(name, i, v) ==
  IF v.t = "String"
  THEN Ok(v.v)
  ELSE Err([kind |-> "TypeError", span |-> ParamSpan(i), name |-> name])

(***************************************************************************)
(* data_encoding: BASE64, BASE64URL, BASE64URL_NOPAD, HEXLOWER_PERMISSIVE  *)
(***************************************************************************)

Sym64 == Text("ABCDEFGHIJKLMNOPQRSTUVWXYZabcdefghijklmnopqrstuvwxyz0123456789+/")
Sym64Url == Text("ABCDEFGHIJKLMNOPQRSTUVWXYZabcdefghijklmnopqrstuvwxyz0123456789-_")
SymHex == Text("0123456789abcdef")
SymHexUpper == Text("0123456789ABCDEF")

\* value of symbol c in alphabet sym, -1 if c is not a symbol
SymVal(sym, c) == Find(sym, c, 1) - 1

RECURSIVE Encode64(_, _, _)
Encode64(sym, pad, b) ==
  IF Len(b) = 0 THEN <<>>
  ELSE IF Len(b) = 1 THEN
    <<sym[(b[1] \div 4) + 1], sym[((b[1] % 4) * 16) + 1]>>
      \o (IF pad THEN <<Ch.pad, Ch.pad>> ELSE <<>>)
  ELSE IF Len(b) = 2 THEN
    <<sym[(b[1] \div 4) + 1],
      sym[((b[1] % 4) * 16 + (b[2] \div 16)) + 1],
      sym[((b[2] % 16) * 4) + 1]>>
      \o (IF pad THEN <<Ch.pad>> ELSE <<>>)
  ELSE
    <<sym[(b[1] \div 4) + 1],
      sym[((b[1] % 4) * 16 + (b[2] \div 16)) + 1],
      sym[((b[2] % 16) * 4 + (b[3] \div 64)) + 1],
      sym[(b[3] % 64) + 1]>>
      \o Encode64(sym, pad, SubSeq(b, 4, Len(b)))

\* one block of 2, 3 or 4 symbols; trailing bits have to be zero
\* the bytes of the symbol values val of a block
BlockBytes(n, val) ==
  IF n < 2 \/ n > 4 THEN Err(LibError("DecodeError", LibMsg.length))
  ELSE IF \E i \in 1..n : val[i] < 0
    THEN Err(LibError("DecodeError", LibMsg.symbol))
  ELSE IF n = 2 THEN
    IF val[2] % 16 # 0
    THEN Err(LibError("DecodeError", LibMsg.trailing))
    ELSE Ok(<<val[1] * 4 + (val[2] \div 16)>>)
  ELSE IF n = 3 THEN
    IF val[3] % 4 # 0
    THEN Err(LibError("DecodeError", LibMsg.trailing))
    ELSE Ok(<<val[1] * 4 + (val[2] \div 16),
              (val[2] % 16) * 16 + (val[3] \div 4)>>)
  ELSE Ok(<<val[1] * 4 + (val[2] \div 16),
            (val[2] % 16) * 16 + (val[3] \div 4),
            (val[3] % 4) * 64 + val[4]>>)

DecodeBlock64(sym, blk) ==
  BlockBytes(Len(blk), [i \in 1..Len(blk) |-> SymVal(sym, blk[i])])

\* the bytes of a block followed by the bytes of the rest, or the first error
Joined(h, r) == IF ~h.ok THEN h ELSE IF ~r.ok THEN r ELSE Ok(h.v \o r.v)

RECURSIVE DecodeNoPad64(_, _)
DecodeNoPad64(sym, s) ==
  IF Len(s) = 0 THEN Ok(<<>>)
  ELSE IF Len(s) % 4 = 1
    THEN Err(LibError("DecodeError", LibMsg.length))
  ELSE IF Len(s) <= 4 THEN DecodeBlock64(sym, s)
  ELSE Joined(DecodeBlock64(sym, SubSeq(s, 1, 4)),
              DecodeNoPad64(sym, SubSeq(s, 5, Len(s))))

\* number of padding characters at the end of a block of 4
PadCount(blk) ==
  IF blk[4] # Ch.pad THEN 0
  ELSE IF blk[3] # Ch.pad THEN 1
  ELSE IF blk[2] # Ch.pad THEN 2
  ELSE IF blk[1] # Ch.pad THEN 3 ELSE 4

\* a block of 4 that ends in p padding characters
DecodePadded(sym, blk, p) ==
  IF p > 2 THEN Err(LibError("DecodeError", LibMsg.padding))
  ELSE DecodeBlock64(sym, SubSeq(blk, 1, 4 - p))

RECURSIVE DecodePad64(_, _)
DecodePad64(sym, s) ==
  IF Len(s) = 0 THEN Ok(<<>>)
  ELSE IF Len(s) % 4 # 0
    THEN Err(LibError("DecodeError", LibMsg.length))
  ELSE Joined(DecodePadded(sym, SubSeq(s, 1, 4), PadCount(SubSeq(s, 1, 4))),
              DecodePad64(sym, SubSeq(s, 5, Len(s))))

BASE64_encode(b) == Encode64(Sym64, TRUE, b)
BASE64_decode(s) == DecodePad64(Sym64, s)
BASE64URL_encode(b) == Encode64(Sym64Url, TRUE, b)
BASE64URL_decode(s) == DecodePad64(Sym64Url, s)
BASE64URL_NOPAD_encode(b) == Encode64(Sym64Url, FALSE, b)
BASE64URL_NOPAD_decode(s) == DecodeNoPad64(Sym64Url, s)

RECURSIVE HEXLOWER_PERMISSIVE_encode(_)
HEXLOWER_PERMISSIVE_encode(b) ==
  IF b = <<>> THEN <<>>
  ELSE <<SymHex[(b[1] \div 16) + 1], SymHex[(b[1] % 16) + 1]>>
         \o HEXLOWER_PERMISSIVE_encode(Tail(b))

\* the permissive decoder translates upper case digits to lower case
HexVal(c) ==
  IF SymVal(SymHex, c) >= 0 THEN SymVal(SymHex, c) ELSE SymVal(SymHexUpper, c)

RECURSIVE HEXLOWER_PERMISSIVE_decode(_)
HEXLOWER_PERMISSIVE_decode(s) ==
  IF Len(s) = 0 THEN Ok(<<>>)
  ELSE IF Len(s) % 2 # 0
    THEN Err(LibError("DecodeError", LibMsg.length))
  ELSE IF HexVal(s[1]) < 0 \/ HexVal(s[2]) < 0
    THEN Err(LibError("DecodeError", LibMsg.symbol))
  ELSE Joined(Ok(<<HexVal(s[1]) * 16 + HexVal(s[2])>>),
              HEXLOWER_PERMISSIVE_decode(SubSeq(s, 3, Len(s))))

(***************************************************************************)
(* String::from_utf8_lossy                                                 *)
(***************************************************************************)
Replacement == <<239, 191, 189>>

IsCont(b, i) == i <= Len(b) /\ b[i] >= 128 /\ b[i] <= 191

\* number of bytes of the character starting at b[1] when it is well formed,
\* otherwise minus the number of bytes of the ill-formed prefix
Utf8Width(b) ==
  LET c == b[1]
      in2(lo, hi) == Len(b) >= 2 /\ b[2] >= lo /\ b[2] <= hi
  IN IF c < 128 THEN 1
     ELSE IF c >= 194 /\ c <= 223 THEN (IF IsCont(b, 2) THEN 2 ELSE -1)
     ELSE IF c >= 224 /\ c <= 239 THEN
       IF ~in2(IF c = 224 THEN 160 ELSE 128, IF c = 237 THEN 159 ELSE 191)
       THEN -1
       ELSE IF IsCont(b, 3) THEN 3 ELSE -2
     ELSE IF c >= 240 /\ c <= 244 THEN
       IF ~in2(IF c = 240 THEN 144 ELSE 128, IF c = 244 THEN 143 ELSE 191)
       THEN -1
       ELSE IF ~IsCont(b, 3) THEN -2
       ELSE IF IsCont(b, 4) THEN 4 ELSE -3
     ELSE -1

RECURSIVE from_utf8_lossy(_)
RECURSIVE LossyStep(_, _)
from_utf8_lossy(b) == IF b = <<>> THEN <<>> ELSE LossyStep(b, Utf8Width(b))
\* keeps the character of width w, or replaces the ill-formed prefix
LossyStep(b, w) ==
  IF w > 0
  THEN SubSeq(b, 1, w) \o from_utf8_lossy(SubSeq(b, w + 1, Len(b)))
  ELSE Replacement \o from_utf8_lossy(SubSeq(b, 1 - w, Len(b)))

(***************************************************************************)
(* BTreeMap<Value, Value> with string keys                                 *)
(***************************************************************************)
\* index of key k in m, 0 if absent
RECURSIVE MapIndex(_, _, _)
MapIndex(m, k, i) ==
  IF i > Len(m) THEN 0 ELSE IF m[i][1] = k THEN i ELSE MapIndex(m, k, i + 1)

\* number of entries of m whose key is less than k
RECURSIVE MapRank(_, _)
MapRank(m, k) ==
  IF m = <<>> THEN 0
  ELSE (IF StrLess(Head(m)[1].v, k.v) THEN 1 ELSE 0) + MapRank(Tail(m), k)

\* variant: a new entry goes to the end, in insertion order
MapInsert_unsorted(m, k, v) ==
  IF MapIndex(m, k, 1) > 0 THEN [m EXCEPT ![MapIndex(m, k, 1)] = <<k, v>>]
  ELSE Append(m, <<k, v>>)

\* BTreeMap::insert: replaces the value of a present key, otherwise puts the
\* entry at its place in key order
InsertAt(m, i, r, k, v) ==
  IF i > 0 THEN [m EXCEPT ![i] = <<k, v>>]
  ELSE SubSeq(m, 1, r) \o <<<<k, v>>>> \o SubSeq(m, r + 1, Len(m))

MapInsert(m, k, v) == InsertAt(m, MapIndex(m, k, 1), MapRank(m, k), k, v)

(***************************************************************************)
(* serde_json: to_string and from_str over Value                           *)
(***************************************************************************)

RECURSIVE Digits(_)
Digits(n) ==
  IF n < 10 THEN <<48 + n>> ELSE Digits(n \div 10) \o <<48 + (n % 10)>>

RECURSIVE JsonEscape(_)
JsonEscape(s) ==
  IF s = <<>> THEN <<>>
  ELSE (IF Head(s) = Ch.quote \/ Head(s) = Ch.backslash
        THEN <<Ch.backslash, Head(s)>> ELSE <<Head(s)>>) \o JsonEscape(Tail(s))

RECURSIVE to_json_text(_)
RECURSIVE JsonElems(_)
RECURSIVE JsonMembers(_)
to_json_text(v) ==
  CASE v.t = "Null" -> Tok.null
    [] v.t = "Bool" -> (IF v.v THEN Tok.true ELSE Tok.false)
    [] v.t = "Number" ->
         (IF v.v < 0 THEN <<Ch.minus>> \o Digits(0 - v.v) ELSE Digits(v.v))
    [] v.t = "String" -> <<Ch.quote>> \o JsonEscape(v.v) \o <<Ch.quote>>
    [] v.t = "Array" -> <<Ch.lbracket>> \o JsonElems(v.v) \o <<Ch.rbracket>>
    [] v.t = "Object" -> <<Ch.lbrace>> \o JsonMembers(v.v) \o <<Ch.rbrace>>
JsonElems(a) ==
  IF a = <<>> THEN <<>>
  ELSE to_json_text(Head(a))
         \o (IF Len(a) > 1 THEN <<Ch.comma>> ELSE <<>>) \o JsonElems(Tail(a))
JsonMembers(m) ==
  IF m = <<>> THEN <<>>
  ELSE to_json_text(Head(m)[1]) \o <<Ch.colon>> \o to_json_text(Head(m)[2])
         \o (IF Len(m) > 1 THEN <<Ch.comma>> ELSE <<>>) \o JsonMembers(Tail(m))

\* Value::to_json_str and serde_json::to_string: no Value of the model fails
\* to serialize
to_json_str(v) == Ok(to_json_text(v))

PErr == [ok |-> FALSE]
POk(v, next) == [ok |-> TRUE, v |-> v, next |-> next]

IsDigit(c) == c >= 48 /\ c <= 57
IsSpace(c) == c = 32 \/ c = 10 \/ c = 13 \/ c = 9

RECURSIVE SkipSpace(_, _)
SkipSpace(s, i) ==
  IF i <= Len(s) /\ IsSpace(s[i]) THEN SkipSpace(s, i + 1) ELSE i

HasPrefix(s, i, p) == i + Len(p) - 1 <= Len(s) /\ SubSeq(s, i, i + Len(p) - 1) = p

\* digits from position i on: the end of the run and its value
RECURSIVE ParseDigits(_, _, _)
ParseDigits(s, i, acc) ==
  IF i <= Len(s) /\ IsDigit(s[i])
  THEN ParseDigits(s, i + 1, acc * 10 + (s[i] - 48))
  ELSE POk(acc, i)

Signed(neg, d) == POk(Number(IF neg THEN 0 - d.v ELSE d.v), d.next)

\* integers only, the first digit at j; a leading zero is followed by no digit
ParseUnsigned(s, neg, j) ==
  IF j > Len(s) \/ ~IsDigit(s[j]) THEN PErr
  ELSE IF s[j] = 48 THEN
    (IF j + 1 <= Len(s) /\ IsDigit(s[j + 1]) THEN PErr
     ELSE POk(Number(0), j + 1))
  ELSE Signed(neg, ParseDigits(s, j, 0))

ParseNumber(s, i) ==
  IF s[i] = Ch.minus THEN ParseUnsigned(s, TRUE, i + 1)
  ELSE ParseUnsigned(s, FALSE, i)

\* the characters of a string from position i (after the opening quote) on
RECURSIVE ParseChars(_, _, _)
ParseChars(s, i, acc) ==
  IF i > Len(s) THEN PErr
  ELSE IF s[i] = Ch.quote THEN POk(String(acc), i + 1)
  ELSE IF s[i] < 32 THEN PErr
  ELSE IF s[i] = Ch.backslash THEN
    (IF i + 1 <= Len(s) /\ s[i + 1] \in {Ch.quote, Ch.backslash, Ch.slash}
     THEN ParseChars(s, i + 2, Append(acc, s[i + 1]))
     ELSE IF i + 1 <= Len(s) /\ s[i + 1] = Ch.n
     THEN ParseChars(s, i + 2, Append(acc, 10))
     ELSE PErr)
  ELSE ParseChars(s, i + 1, Append(acc, s[i]))

RECURSIVE ParseValue(_, _)
RECURSIVE ParseAt(_, _)
RECURSIVE ParseArray(_, _)
RECURSIVE ParseObject(_, _)
RECURSIVE ParseElems(_, _, _)
RECURSIVE ElemsNext(_, _, _)
RECURSIVE ElemsSep(_, _, _, _)
RECURSIVE ParseMembers(_, _, _)
RECURSIVE MemberKey(_, _, _)
RECURSIVE MemberColon(_, _, _)
RECURSIVE MemberValue(_, _, _, _)
RECURSIVE MemberNext(_, _, _, _)
RECURSIVE MemberSep(_, _, _)
\* a value, after any space
ParseValue(s, i0) == ParseAt(s, SkipSpace(s, i0))
ParseAt(s, i) ==
  IF i > Len(s) THEN PErr
  ELSE IF HasPrefix(s, i, Tok.null) THEN POk(Null, i + 4)
  ELSE IF HasPrefix(s, i, Tok.true) THEN POk(Bool(TRUE), i + 4)
  ELSE IF HasPrefix(s, i, Tok.false) THEN POk(Bool(FALSE), i + 5)
  ELSE IF s[i] = Ch.quote THEN ParseChars(s, i + 1, <<>>)
  ELSE IF s[i] = Ch.minus \/ IsDigit(s[i]) THEN ParseNumber(s, i)
  ELSE IF s[i] = Ch.lbracket THEN ParseArray(s, SkipSpace(s, i + 1))
  ELSE IF s[i] = Ch.lbrace THEN ParseObject(s, SkipSpace(s, i + 1))
  ELSE PErr
ParseArray(s, j) ==
  IF j <= Len(s) /\ s[j] = Ch.rbracket THEN POk(Array(<<>>), j + 1)
  ELSE ParseElems(s, j, <<>>)
ParseObject(s, j) ==
  IF j <= Len(s) /\ s[j] = Ch.rbrace THEN POk(Object(<<>>), j + 1)
  ELSE ParseMembers(s, j, <<>>)
\* the elements of an array, the next one starting at i
ParseElems(s, i, acc) == ElemsNext(s, ParseValue(s, i), acc)
ElemsNext(s, e, acc) ==
  IF ~e.ok THEN PErr ELSE ElemsSep(s, e.v, SkipSpace(s, e.next), acc)
ElemsSep(s, v, j, acc) ==
  IF j > Len(s) THEN PErr
  ELSE IF s[j] = Ch.rbracket THEN POk(Array(Append(acc, v)), j + 1)
  ELSE IF s[j] = Ch.comma THEN ParseElems(s, j + 1, Append(acc, v))
  ELSE PErr
\* the members of an object, the next key starting at i0; a repeated key
\* keeps its last value
ParseMembers(s, i0, acc) == MemberKey(s, SkipSpace(s, i0), acc)
MemberKey(s, i, acc) ==
  IF i <= Len(s) /\ s[i] = Ch.quote
  THEN MemberColon(s, ParseChars(s, i + 1, <<>>), acc)
  ELSE PErr
MemberColon(s, k, acc) ==
  IF ~k.ok THEN PErr ELSE MemberValue(s, k.v, SkipSpace(s, k.next), acc)
MemberValue(s, key, c, acc) ==
  IF c <= Len(s) /\ s[c] = Ch.colon
  THEN MemberNext(s, key, ParseValue(s, c + 1), acc)
  ELSE PErr
MemberNext(s, key, e, acc) ==
  IF ~e.ok THEN PErr
  ELSE MemberSep(s, MapInsert(acc, key, e.v), SkipSpace(s, e.next))
MemberSep(s, acc, j) ==
  IF j > Len(s) THEN PErr
  ELSE IF s[j] = Ch.rbrace THEN POk(Object(acc), j + 1)
  ELSE IF s[j] = Ch.comma THEN ParseMembers(s, j + 1, acc)
  ELSE PErr


\* the parse succeeded and only space follows the value
ParseEnd(s, p) ==
  IF p.ok /\ SkipSpace(s, p.next) > Len(s) THEN Ok(p.v)
  ELSE Err(LibError("ParseError", LibMsg.json_syntax))

\* serde_json::from_str and Value::from_json_str: one value, then only space
from_json_str(s) == ParseEnd(s, ParseValue(s, 1))

(***************************************************************************)
(* serde_yaml over scalars, flow collections and block collections of      *)
(* scalars                                                                 *)
(***************************************************************************)

IsAlnum(c) == IsDigit(c) \/ (c >= 65 /\ c <= 90) \/ (c >= 97 /\ c <= 122)


\* the value a plain (unquoted) scalar resolves to
PlainScalar(s) ==
  IF s = Tok.null \/ s = Tok.tilde THEN Null
  ELSE IF s = Tok.true THEN Bool(TRUE)
  ELSE IF s = Tok.false THEN Bool(FALSE)
  ELSE IF s # <<>> /\ (\A i \in 1..Len(s) : IsDigit(s[i]))
            /\ (Len(s) = 1 \/ s[1] # 48)
    THEN Number(ParseDigits(s, 1, 0).v)
  ELSE String(s)

\* a string that is written without quotes
IsPlain(s) ==
  /\ s # <<>>
  /\ \A i \in 1..Len(s) : IsAlnum(s[i])
  /\ PlainScalar(s).t = "String"

RECURSIVE StripNewlines(_)
StripNewlines(s) ==
  IF s # <<>> /\ s[Len(s)] = Ch.newline
  THEN StripNewlines(SubSeq(s, 1, Len(s) - 1)) ELSE s

Msg_yaml_flow == Err(LibError("ParseError", LibMsg.yaml_syntax))

FlowValue(j) == IF j.ok THEN j ELSE Msg_yaml_flow

YamlText(s) ==
  IF s # <<>> /\ s[1] \in {Ch.lbrace, Ch.lbracket, Ch.quote} THEN FlowValue(from_json_str(s))
  ELSE IF s # <<>> /\ \A i \in 1..Len(s) : IsAlnum(s[i]) THEN Ok(PlainScalar(s))
  ELSE Msg_yaml_flow

\* Value::from_yaml_str: a flow collection or a double quoted scalar reads as
\* JSON does, anything else made of letters and digits is a plain scalar
from_yaml_str(s0) == YamlText(StripNewlines(s0))


YamlScalar(v) ==
  CASE v.t = "Null" -> Tok.null
    [] v.t = "Bool" -> (IF v.v THEN Tok.true ELSE Tok.false)
    [] v.t = "Number" -> Digits(v.v)
    [] v.t = "String" ->
         (IF IsPlain(v.v) THEN v.v ELSE <<Ch.apostrophe>> \o v.v \o <<Ch.apostrophe>>)
    [] v.t = "Array" -> Tok.empty_seq
    [] v.t = "Object" -> Tok.empty_map

\* serde_yaml::to_string: a scalar on a line; a sequence as one "- item" line
\* per element; a mapping as one "key: value" line per entry
serde_yaml_to_string(v) ==
  IF v.t = "Array" /\ v.v # <<>>
  THEN Ok(Concat([i \in 1..Len(v.v) |->
            Tok.dash \o YamlScalar(v.v[i]) \o <<Ch.newline>>]))
  ELSE IF v.t = "Object" /\ v.v # <<>>
  THEN Ok(Concat([i \in 1..Len(v.v) |->
            YamlScalar(v.v[i][1]) \o Tok.colon \o YamlScalar(v.v[i][2])
              \o <<Ch.newline>>]))
  ELSE Ok(YamlScalar(v) \o <<Ch.newline>>)

(***************************************************************************)
(* url: Url::parse of the prefixed query and Url::query_pairs              *)
(***************************************************************************)
UrlPrefix == Text("https://non-existent?")


QueryOf(u, q, h) == SubSeq(u, q + 1, IF h = 0 THEN Len(u) ELSE h - 1)

\* Url::parse: the query runs from the first ? to the first # ; nothing in a
\* query makes the parser fail
Url_parse(u) ==
  Ok([query |-> QueryOf(u, Find(u, Ch.question, 1),
                        Find(u, Ch.hash, Find(u, Ch.question, 1) + 1))])

\* the pieces of s between occurrences of the byte sep
RECURSIVE Split(_, _)
RECURSIVE SplitAt(_, _, _)
Split(s, sep) == SplitAt(s, sep, Find(s, sep, 1))
SplitAt(s, sep, i) ==
  IF i = 0 THEN <<s>>
  ELSE <<SubSeq(s, 1, i - 1)>> \o Split(SubSeq(s, i + 1, Len(s)), sep)

\* form_urlencoded decoding: + is a space, %XX is the byte XX
RECURSIVE PercentDecode(_)
PercentDecode(s) ==
  IF s = <<>> THEN <<>>
  ELSE IF s[1] = Ch.plus THEN <<32>> \o PercentDecode(Tail(s))
  ELSE IF s[1] = Ch.percent /\ Len(s) >= 3 /\ HexVal(s[2]) >= 0 /\ HexVal(s[3]) >= 0
    THEN <<HexVal(s[2]) * 16 + HexVal(s[3])>> \o PercentDecode(SubSeq(s, 4, Len(s)))
  ELSE <<s[1]>> \o PercentDecode(Tail(s))

FormDecode(s) == from_utf8_lossy(PercentDecode(s))

\* a piece split at its first = , found at e
PairOf(p, e) ==
  IF p = <<>> THEN <<>>
  ELSE IF e = 0 THEN <<<<FormDecode(p), <<>>>>>>
  ELSE <<<<FormDecode(SubSeq(p, 1, e - 1)), FormDecode(SubSeq(p, e + 1, Len(p)))>>>>

\* Url::query_pairs: the non-empty pieces between & , each split at its
\* first =
RECURSIVE PairsOf(_)
PairsOf(pieces) ==
  IF pieces = <<>> THEN <<>>
  ELSE PairOf(Head(pieces), Find(Head(pieces), Ch.equals, 1)) \o PairsOf(Tail(pieces))

query_pairs(url) == PairsOf(Split(url.query, Ch.ampersand))

(***************************************************************************)
(* jsonschema: the keywords type and properties, and boolean schemas       *)
(***************************************************************************)
K_type == String(Text("type"))
K_properties == String(Text("properties"))
TypeNames ==
  {Text("null"), Text("boolean"), Text("object"), Text("array"),
   Text("number"), Text("string"), Text("integer")}

MapHas(m, k) == MapIndex(m, k, 1) > 0
MapGet(m, k) == m[MapIndex(m, k, 1)][2]

IsTypeName(v) == v.t = "String" /\ v.v \in TypeNames

RECURSIVE ValidSchema(_)
ValidSchema(d) ==
  IF d.t = "Bool" THEN TRUE
  ELSE IF d.t # "Object" THEN FALSE
  ELSE /\ MapHas(d.v, K_type) =>
            LET ty == MapGet(d.v, K_type)
            IN \/ IsTypeName(ty)
               \/ /\ ty.t = "Array"
                  /\ \A i \in 1..Len(ty.v) : IsTypeName(ty.v[i])
                  /\ \A i, j \in 1..Len(ty.v) : ty.v[i] = ty.v[j] => i = j
       /\ MapHas(d.v, K_properties) =>
            LET ps == MapGet(d.v, K_properties)
            IN /\ ps.t = "Object"
               /\ \A i \in 1..Len(ps.v) : ValidSchema(ps.v[i][2])

\* JSONSchema::compile
JSONSchema_compile(d) ==
  IF ValidSchema(d) THEN Ok(d) ELSE Err(LibError("SchemaError", LibMsg.bad_schema))

TypeOf(v) ==
  CASE v.t = "Null" -> {Text("null")}
    [] v.t = "Bool" -> {Text("boolean")}
    [] v.t = "Number" -> {Text("number"), Text("integer")}
    [] v.t = "String" -> {Text("string")}
    [] v.t = "Array" -> {Text("array")}
    [] v.t = "Object" -> {Text("object")}

\* JSONSchema::validate: the messages of the failed keywords, none when the
\* instance matches
RECURSIVE ValidationErrors(_, _)
ValidationErrors(d, inst) ==
  IF d.t = "Bool" THEN (IF d.v THEN <<>> ELSE <<LibMsg.false_schema>>)
  ELSE
    LET tyErrs ==
          IF ~MapHas(d.v, K_type) THEN <<>>
          ELSE LET ty == MapGet(d.v, K_type)
                   allowed == IF ty.t = "String" THEN {ty.v}
                              ELSE {ty.v[i].v : i \in 1..Len(ty.v)}
               IN IF TypeOf(inst) \cap allowed # {} THEN <<>>
                  ELSE <<LibMsg.wrong_type>>
        propErrs ==
          IF ~MapHas(d.v, K_properties) \/ inst.t # "Object" THEN <<>>
          ELSE LET ps == MapGet(d.v, K_properties).v
               IN Concat([i \in 1..Len(ps) |->
                    IF MapHas(inst.v, ps[i][1])
                    THEN ValidationErrors(ps[i][2], MapGet(inst.v, ps[i][1]))
                    ELSE <<>>])
    IN tyErrs \o propErrs

(***************************************************************************)
(* The builtins                                                            *)
(***************************************************************************)
\* variant: the string check comes before the arity check
base64_decode_type_first(args, strict) ==
  LET name == "base64.decode"
      encoded_str == IF Len(args) >= 1 THEN ensure_string(name, 1, args[1])
                     ELSE Ok(<<>>)
      c == ensure_args_count(name, args, 1)
  IN IF ~encoded_str.ok THEN Done(<<"ensure_string">>, encoded_str)
     ELSE IF ~c.ok THEN Done(<<"ensure_string", "ensure_args_count">>, c)
     ELSE LET decoded_bytes == BASE64_decode(encoded_str.v)
          IN IF ~decoded_bytes.ok
             THEN Done(<<"ensure_string", "ensure_args_count", "decode">>,
                       decoded_bytes)
             ELSE Done(<<"ensure_string", "ensure_args_count", "decode",
                         "from_utf8_lossy">>,
                       Ok(String(from_utf8_lossy(decoded_bytes.v))))

base64_decode(args, strict) ==
  LET name == "base64.decode"
      c == ensure_args_count(name, args, 1)
  IN IF ~c.ok THEN Done(<<"ensure_args_count">>, c)
     ELSE LET encoded_str == ensure_string(name, 1, args[1])
          IN IF ~encoded_str.ok
             THEN Done(<<"ensure_args_count", "ensure_string">>, encoded_str)
             ELSE LET decoded_bytes == BASE64_decode(encoded_str.v)
                  IN IF ~decoded_bytes.ok
                     THEN Done(<<"ensure_args_count", "ensure_string", "decode">>,
                               decoded_bytes)
                     ELSE Done(<<"ensure_args_count", "ensure_string", "decode",
                                 "from_utf8_lossy">>,
                               Ok(String(from_utf8_lossy(decoded_bytes.v))))

base64_encode(args, strict) ==
  LET name == "base64.encode"
      c == ensure_args_count(name, args, 1)
  IN IF ~c.ok THEN Done(<<"ensure_args_count">>, c)
     ELSE LET string == ensure_string(name, 1, args[1])
          IN IF ~string.ok
             THEN Done(<<"ensure_args_count", "ensure_string">>, string)
             ELSE Done(<<"ensure_args_count", "ensure_string", "encode">>,
                       Ok(String(BASE64_encode(string.v))))

base64_is_valid(args, strict) ==
  LET name == "base64.is_valid"
      c == ensure_args_count(name, args, 1)
  IN IF ~c.ok THEN Done(<<"ensure_args_count">>, c)
     ELSE LET encoded_str == ensure_string(name, 1, args[1])
          IN IF ~encoded_str.ok
             THEN Done(<<"ensure_args_count", "ensure_string">>, encoded_str)
             ELSE Done(<<"ensure_args_count", "ensure_string", "decode">>,
                       Ok(Bool(BASE64_decode(encoded_str.v).ok)))

\* variant: no retry with the unpadded decoder
base64url_decode_padded_only(args, strict) ==
  LET name == "base64url.decode"
      c == ensure_args_count(name, args, 1)
  IN IF ~c.ok THEN Done(<<"ensure_args_count">>, c)
     ELSE LET encoded_str == ensure_string(name, 1, args[1])
          IN IF ~encoded_str.ok
             THEN Done(<<"ensure_args_count", "ensure_string">>, encoded_str)
             ELSE LET decoded_bytes == BASE64URL_decode(encoded_str.v)
                  IN IF ~decoded_bytes.ok
                     THEN Done(<<"ensure_args_count", "ensure_string", "decode">>,
                               decoded_bytes)
                     ELSE Done(<<"ensure_args_count", "ensure_string", "decode",
                                 "from_utf8_lossy">>,
                               Ok(String(from_utf8_lossy(decoded_bytes.v))))

base64url_decode(args, strict) ==
  LET name == "base64url.decode"
      c == ensure_args_count(name, args, 1)
  IN IF ~c.ok THEN Done(<<"ensure_args_count">>, c)
     ELSE LET encoded_str == ensure_string(name, 1, args[1])
          IN IF ~encoded_str.ok
             THEN Done(<<"ensure_args_count", "ensure_string">>, encoded_str)
             ELSE LET padded == BASE64URL_decode(encoded_str.v)
                      decoded_bytes ==
                        IF padded.ok THEN padded
                        ELSE BASE64URL_NOPAD_decode(encoded_str.v)
                  IN IF ~decoded_bytes.ok
                     THEN Done(<<"ensure_args_count", "ensure_string", "decode",
                                 "decode">>, decoded_bytes)
                     ELSE Done(<<"ensure_args_count", "ensure_string", "decode">>
                                 \o (IF padded.ok THEN <<>> ELSE <<"decode">>)
                                 \o <<"from_utf8_lossy">>,
                               Ok(String(from_utf8_lossy(decoded_bytes.v))))

base64url_encode(args, strict) ==
  LET name == "base64url.encode"
      c == ensure_args_count(name, args, 1)
  IN IF ~c.ok THEN Done(<<"ensure_args_count">>, c)
     ELSE LET string == ensure_string(name, 1, args[1])
          IN IF ~string.ok
             THEN Done(<<"ensure_args_count", "ensure_string">>, string)
             ELSE Done(<<"ensure_args_count", "ensure_string", "encode">>,
                       Ok(String(BASE64URL_encode(string.v))))

base64url_encode_no_pad(args, strict) ==
  LET name == "base64url.encode_no_pad"
      c == ensure_args_count(name, args, 1)
  IN IF ~c.ok THEN Done(<<"ensure_args_count">>, c)
     ELSE LET string == ensure_string(name, 1, args[1])
          IN IF ~string.ok
             THEN Done(<<"ensure_args_count", "ensure_string">>, string)
             ELSE Done(<<"ensure_args_count", "ensure_string", "encode">>,
                       Ok(String(BASE64URL_NOPAD_encode(string.v))))

\* the decoder of HEXLOWER, which rejects upper case digits
RECURSIVE HEXLOWER_decode(_)
HEXLOWER_decode(s) ==
  IF Len(s) = 0 THEN Ok(<<>>)
  ELSE IF Len(s) % 2 # 0
    THEN Err(LibError("DecodeError", LibMsg.length))
  ELSE IF SymVal(SymHex, s[1]) < 0 \/ SymVal(SymHex, s[2]) < 0
    THEN Err(LibError("DecodeError", LibMsg.symbol))
  ELSE Joined(Ok(<<SymVal(SymHex, s[1]) * 16 + SymVal(SymHex, s[2])>>),
              HEXLOWER_decode(SubSeq(s, 3, Len(s))))

\* variant: strict selects the decoder that rejects upper case digits
hex_decode_strict_case(args, strict) ==
  LET name == "hex.decode"
      c == ensure_args_count(name, args, 1)
  IN IF ~c.ok THEN Done(<<"ensure_args_count">>, c)
     ELSE LET encoded_str == ensure_string(name, 1, args[1])
          IN IF ~encoded_str.ok
             THEN Done(<<"ensure_args_count", "ensure_string">>, encoded_str)
             ELSE LET decoded_bytes ==
                        IF strict THEN HEXLOWER_decode(encoded_str.v)
                        ELSE HEXLOWER_PERMISSIVE_decode(encoded_str.v)
                  IN IF ~decoded_bytes.ok
                     THEN Done(<<"ensure_args_count", "ensure_string", "decode">>,
                               decoded_bytes)
                     ELSE Done(<<"ensure_args_count", "ensure_string", "decode",
                                 "from_utf8_lossy">>,
                               Ok(String(from_utf8_lossy(decoded_bytes.v))))

hex_decode(args, strict) ==
  LET name == "hex.decode"
      c == ensure_args_count(name, args, 1)
  IN IF ~c.ok THEN Done(<<"ensure_args_count">>, c)
     ELSE LET encoded_str == ensure_string(name, 1, args[1])
          IN IF ~encoded_str.ok
             THEN Done(<<"ensure_args_count", "ensure_string">>, encoded_str)
             ELSE LET decoded_bytes == HEXLOWER_PERMISSIVE_decode(encoded_str.v)
                  IN IF ~decoded_bytes.ok
                     THEN Done(<<"ensure_args_count", "ensure_string", "decode">>,
                               decoded_bytes)
                     ELSE Done(<<"ensure_args_count", "ensure_string", "decode",
                                 "from_utf8_lossy">>,
                               Ok(String(from_utf8_lossy(decoded_bytes.v))))

hex_encode(args, strict) ==
  LET name == "hex.encode"
      c == ensure_args_count(name, args, 1)
  IN IF ~c.ok THEN Done(<<"ensure_args_count">>, c)
     ELSE LET string == ensure_string(name, 1, args[1])
          IN IF ~string.ok
             THEN Done(<<"ensure_args_count", "ensure_string">>, string)
             ELSE Done(<<"ensure_args_count", "ensure_string", "encode">>,
                       Ok(String(HEXLOWER_PERMISSIVE_encode(string.v))))

Msg_not_url_query == Text("not a valid url query")

\* the loop over the pairs: each value is pushed on the array under its key
RECURSIVE CollectPairs(_, _)
CollectPairs(map, pairs) ==
  IF pairs = <<>> THEN map
  ELSE LET key == String(Head(pairs)[1])
           value == String(Head(pairs)[2])
           a == IF MapHas(map, key) THEN MapGet(map, key) ELSE Array(<<>>)
       IN CollectPairs(MapInsert(map, key, Array(Append(a.v, value))),
                       Tail(pairs))

urlquery_decode_object(args, strict) ==
  LET name == "urlquery.encode"
      c == ensure_args_count(name, args, 1)
  IN IF ~c.ok THEN Done(<<"ensure_args_count">>, c)
     ELSE LET string == ensure_string(name, 1, args[1])
          IN IF ~string.ok
             THEN Done(<<"ensure_args_count", "ensure_string">>, string)
             ELSE LET url == Url_parse(UrlPrefix \o string.v)
                  IN IF ~url.ok
                     THEN Done(<<"ensure_args_count", "ensure_string", "parse">>,
                               Err(SpanError("ParseError", ParamSpan(1),
                                             Msg_not_url_query)))
                     ELSE Done(<<"ensure_args_count", "ensure_string", "parse",
                                 "query_pairs">>,
                               Ok(Object(CollectPairs(<<>>, query_pairs(url.v)))))

Msg_yaml_ser == Text("could not serialize to yaml")
Msg_yaml_de == Text("could not deserialize yaml.")
Msg_json_ser == Text("could not serialize to json")
Msg_json_de == Text("could not deserialize json.")

yaml_is_valid(args, strict) ==
  LET name == "yaml.is_valid"
      c == ensure_args_count(name, args, 1)
  IN IF ~c.ok THEN Done(<<"ensure_args_count">>, c)
     ELSE LET yaml_str == ensure_string(name, 1, args[1])
          IN IF ~yaml_str.ok
             THEN Done(<<"ensure_args_count", "ensure_string">>, yaml_str)
             ELSE Done(<<"ensure_args_count", "ensure_string", "parse">>,
                       Ok(Bool(from_yaml_str(yaml_str.v).ok)))

yaml_marshal(args, strict) ==
  LET name == "yaml.marshal"
      c == ensure_args_count(name, args, 1)
  IN IF ~c.ok THEN Done(<<"ensure_args_count">>, c)
     ELSE LET t == serde_yaml_to_string(args[1])
          IN IF ~t.ok
             THEN Done(<<"ensure_args_count", "serialize">>,
                       Err(SpanError("SerializeError", CallSpan, Msg_yaml_ser)))
             ELSE Done(<<"ensure_args_count", "serialize">>, Ok(String(t.v)))

yaml_unmarshal(args, strict) ==
  LET name == "yaml.unmarshal"
      c == ensure_args_count(name, args, 1)
  IN IF ~c.ok THEN Done(<<"ensure_args_count">>, c)
     ELSE LET yaml_str == ensure_string(name, 1, args[1])
          IN IF ~yaml_str.ok
             THEN Done(<<"ensure_args_count", "ensure_string">>, yaml_str)
             ELSE LET v == from_yaml_str(yaml_str.v)
                  IN Done(<<"ensure_args_count", "ensure_string", "parse">>,
                          IF v.ok THEN v
                          ELSE Err(SpanError("ParseError", CallSpan, Msg_yaml_de)))

\* variant: an argument that is not a string is reported as not valid
json_is_valid_lenient(args, strict) ==
  LET name == "json.is_valid"
      c == ensure_args_count(name, args, 1)
  IN IF ~c.ok THEN Done(<<"ensure_args_count">>, c)
     ELSE IF args[1].t # "String"
     THEN Done(<<"ensure_args_count", "parse">>, Ok(Bool(FALSE)))
     ELSE Done(<<"ensure_args_count", "parse">>,
               Ok(Bool(from_json_str(args[1].v).ok)))

json_is_valid(args, strict) ==
  LET name == "json.is_valid"
      c == ensure_args_count(name, args, 1)
  IN IF ~c.ok THEN Done(<<"ensure_args_count">>, c)
     ELSE LET json_str == ensure_string(name, 1, args[1])
          IN IF ~json_str.ok
             THEN Done(<<"ensure_args_count", "ensure_string">>, json_str)
             ELSE Done(<<"ensure_args_count", "ensure_string", "parse">>,
                       Ok(Bool(from_json_str(json_str.v).ok)))

json_marshal(args, strict) ==
  LET name == "json.marshal"
      c == ensure_args_count(name, args, 1)
  IN IF ~c.ok THEN Done(<<"ensure_args_count">>, c)
     ELSE LET t == to_json_str(args[1])
          IN IF ~t.ok
             THEN Done(<<"ensure_args_count", "serialize">>,
                       Err(SpanError("SerializeError", CallSpan, Msg_json_ser)))
             ELSE Done(<<"ensure_args_count", "serialize">>, Ok(String(t.v)))

json_unmarshal(args, strict) ==
  LET name == "json.unmarshal"
      c == ensure_args_count(name, args, 1)
  IN IF ~c.ok THEN Done(<<"ensure_args_count">>, c)
     ELSE LET json_str == ensure_string(name, 1, args[1])
          IN IF ~json_str.ok
             THEN Done(<<"ensure_args_count", "ensure_string">>, json_str)
             ELSE LET v == from_json_str(json_str.v)
                  IN Done(<<"ensure_args_count", "ensure_string", "parse">>,
                          IF v.ok THEN v
                          ELSE Err(SpanError("ParseError", CallSpan, Msg_json_de)))

Msg_not_schema == Text("not a valid json schema")
Msg_invalid_schema == Text("invalid schema: ")

\* variant: one message for every failure
compile_json_schema_uniform(param, arg) ==
  LET schema_str == IF arg.t = "String" THEN Ok(arg.v) ELSE to_json_str(arg)
  IN IF ~schema_str.ok THEN schema_str
     ELSE LET schema == from_json_str(schema_str.v)
          IN IF schema.ok /\ JSONSchema_compile(schema.v).ok
             THEN JSONSchema_compile(schema.v)
             ELSE Err(SpanError("SchemaError", ParamSpan(param), Msg_not_schema))

\* param is the position of the schema parameter
compile_json_schema(param, arg) ==
  LET schema_str == IF arg.t = "String" THEN Ok(arg.v) ELSE to_json_str(arg)
  IN IF ~schema_str.ok THEN schema_str
     ELSE LET schema == from_json_str(schema_str.v)
          IN IF schema.ok
             THEN LET compiled == JSONSchema_compile(schema.v)
                  IN IF compiled.ok THEN compiled
                     ELSE Err(LibError("SchemaError", Display(compiled.e)))
             ELSE Err(SpanError("SchemaError", ParamSpan(param), Msg_not_schema))

\* variant: the failure is returned as data whatever strict is
json_verify_schema_soft(args, strict) ==
  LET name == "json.verify_schema"
      c == ensure_args_count(name, args, 1)
  IN IF ~c.ok THEN Done(<<"ensure_args_count">>, c)
     ELSE LET s == compile_json_schema(1, args[1])
          IN Done(<<"ensure_args_count", "compile">>,
                  IF s.ok THEN Ok(Array(<<Bool(TRUE), Null>>))
                  ELSE Ok(Array(<<Bool(FALSE), String(Display(s.e))>>)))

json_verify_schema(args, strict) ==
  LET name == "json.verify_schema"
      c == ensure_args_count(name, args, 1)
  IN IF ~c.ok THEN Done(<<"ensure_args_count">>, c)
     ELSE LET s == compile_json_schema(1, args[1])
          IN Done(<<"ensure_args_count", "compile">>,
                  IF s.ok THEN Ok(Array(<<Bool(TRUE), Null>>))
                  ELSE IF strict
                  THEN Err(SpanError("SchemaError", ParamSpan(1),
                                     Msg_invalid_schema \o Display(s.e)))
                  ELSE Ok(Array(<<Bool(FALSE), String(Display(s.e))>>)))

\* the outcome of validating document against a compiled schema
MatchResult(schema, document) ==
  LET e == ValidationErrors(schema, document)
  IN IF e = <<>> THEN Ok(Array(<<Bool(TRUE), Null>>))
     ELSE Ok(Array(<<Bool(FALSE), Array([i \in 1..Len(e) |-> String(e[i])])>>))

Msg_no_match == Text("document does not match the schema")

\* variant: under strict a document that does not match fails the call
json_match_schema_strict_mismatch(args, strict) ==
  LET name == "json.match_schema"
      c == ensure_args_count(name, args, 2)
  IN IF ~c.ok THEN Done(<<"ensure_args_count">>, c)
     ELSE LET document == from_json_str(to_json_text(args[1]))
              s == compile_json_schema(2, args[2])
          IN IF s.ok
             THEN Done(<<"ensure_args_count", "serialize", "parse", "compile",
                         "validate">>,
                       IF strict /\ ValidationErrors(s.v, document.v) # <<>>
                       THEN Err(SpanError("SchemaError", ParamSpan(1), Msg_no_match))
                       ELSE MatchResult(s.v, document.v))
             ELSE Done(<<"ensure_args_count", "serialize", "parse", "compile">>,
                       IF strict
                       THEN Err(SpanError("SchemaError", ParamSpan(2),
                              Msg_invalid_schema \o Display(s.e)))
                       ELSE Ok(Array(<<Bool(FALSE), String(Display(s.e))>>)))

json_match_schema(args, strict) ==
  LET name == "json.match_schema"
      c == ensure_args_count(name, args, 2)
  IN IF ~c.ok THEN Done(<<"ensure_args_count">>, c)
     ELSE LET t == to_json_str(args[1])
          IN IF ~t.ok THEN Done(<<"ensure_args_count", "serialize">>, t)
             ELSE LET document == from_json_str(t.v)
                  IN IF ~document.ok
                     THEN Done(<<"ensure_args_count", "serialize", "parse">>,
                               document)
                     ELSE LET s == compile_json_schema(2, args[2])
                          IN IF s.ok
                             THEN Done(<<"ensure_args_count", "serialize", "parse",
                                         "compile", "validate">>,
                                       MatchResult(s.v, document.v))
                             ELSE Done(<<"ensure_args_count", "serialize", "parse",
                                         "compile">>,
                                       IF strict
                                       THEN Err(SpanError("SchemaError", ParamSpan(2),
                                              Msg_invalid_schema \o Display(s.e)))
                                       ELSE Ok(Array(<<Bool(FALSE),
                                                       String(Display(s.e))>>)))

(***************************************************************************)
(* The registry                                                            *)
(***************************************************************************)
Families == {"base64", "base64url", "hex", "urlquery", "jsonschema", "yaml"}

\* HashMap::insert
insert(m, name, fcn, arity) ==
  [n \in DOMAIN m \cup {name} |->
     IF n = name THEN [fcn |-> fcn, arity |-> arity] ELSE m[n]]

\* variant: the yaml entries are inserted whatever the features are, and
\* json.match_schema is declared with one argument
register_unconditional(m, enabled) ==
  LET m1 == IF "base64" \in enabled
            THEN insert(insert(insert(m,
                   "base64.decode", "base64_decode", 1),
                   "base64.encode", "base64_encode", 1),
                   "base64.is_valid", "base64_is_valid", 1)
            ELSE m
      m2 == IF "base64url" \in enabled
            THEN insert(insert(insert(m1,
                   "base64url.decode", "base64url_decode", 1),
                   "base64url.encode", "base64url_encode", 1),
                   "base64url.encode_no_pad", "base64url_encode_no_pad", 1)
            ELSE m1
      m3 == IF "hex" \in enabled
            THEN insert(insert(m2,
                   "hex.decode", "hex_decode", 1),
                   "hex.encode", "hex_encode", 1)
            ELSE m2
      m4 == IF "urlquery" \in enabled
            THEN insert(m3, "urlquery.decode_object", "urlquery_decode_object", 1)
            ELSE m3
      m5 == insert(insert(insert(m4,
                   "json.is_valid", "json_is_valid", 1),
                   "json.marshal", "json_marshal", 1),
                   "json.unmarshal", "json_unmarshal", 1)
      m6 == IF "jsonschema" \in enabled
            THEN insert(insert(m5,
                   "json.match_schema", "json_match_schema", 1),
                   "json.verify_schema", "json_verify_schema", 1)
            ELSE m5
  IN insert(insert(insert(m6,
       "yaml.is_valid", "yaml_is_valid", 1),
       "yaml.marshal", "yaml_marshal", 1),
       "yaml.unmarshal", "yaml_unmarshal", 1)

register(m, enabled) ==
  LET m1 == IF "base64" \in enabled
            THEN insert(insert(insert(m,
                   "base64.decode", "base64_decode", 1),
                   "base64.encode", "base64_encode", 1),
                   "base64.is_valid", "base64_is_valid", 1)
            ELSE m
      m2 == IF "base64url" \in enabled
            THEN insert(insert(insert(m1,
                   "base64url.decode", "base64url_decode", 1),
                   "base64url.encode", "base64url_encode", 1),
                   "base64url.encode_no_pad", "base64url_encode_no_pad", 1)
            ELSE m1
      m3 == IF "hex" \in enabled
            THEN insert(insert(m2,
                   "hex.decode", "hex_decode", 1),
                   "hex.encode", "hex_encode", 1)
            ELSE m2
      m4 == IF "urlquery" \in enabled
            THEN insert(m3, "urlquery.decode_object", "urlquery_decode_object", 1)
            ELSE m3
      m5 == insert(insert(insert(m4,
                   "json.is_valid", "json_is_valid", 1),
                   "json.marshal", "json_marshal", 1),
                   "json.unmarshal", "json_unmarshal", 1)
      m6 == IF "jsonschema" \in enabled
            THEN insert(insert(m5,
                   "json.match_schema", "json_match_schema", 2),
                   "json.verify_schema", "json_verify_schema", 1)
            ELSE m5
  IN IF "yaml" \in enabled
     THEN insert(insert(insert(m6,
            "yaml.is_valid", "yaml_is_valid", 1),
            "yaml.marshal", "yaml_marshal", 1),
            "yaml.unmarshal", "yaml_unmarshal", 1)
     ELSE m6

\* a call of a registered function (builtins::BuiltinFcn)
Invoke(fcn, args, strict) ==
  CASE fcn = "base64_decode" -> base64_decode(args, strict)
    [] fcn = "base64_encode" -> base64_encode(args, strict)
    [] fcn = "base64_is_valid" -> base64_is_valid(args, strict)
    [] fcn = "base64url_decode" -> base64url_decode(args, strict)
    [] fcn = "base64url_encode" -> base64url_encode(args, strict)
    [] fcn = "base64url_encode_no_pad" -> base64url_encode_no_pad(args, strict)
    [] fcn = "hex_decode" -> hex_decode(args, strict)
    [] fcn = "hex_encode" -> hex_encode(args, strict)
    [] fcn = "urlquery_decode_object" -> urlquery_decode_object(args, strict)
    [] fcn = "json_is_valid" -> json_is_valid(args, strict)
    [] fcn = "json_marshal" -> json_marshal(args, strict)
    [] fcn = "json_unmarshal" -> json_unmarshal(args, strict)
    [] fcn = "json_match_schema" -> json_match_schema(args, strict)
    [] fcn = "json_verify_schema" -> json_verify_schema(args, strict)
    [] fcn = "yaml_is_valid" -> yaml_is_valid(args, strict)
    [] fcn = "yaml_marshal" -> yaml_marshal(args, strict)
    [] fcn = "yaml_unmarshal" -> yaml_unmarshal(args, strict)

(***************************************************************************)
(* Inputs                                                                  *)
(***************************************************************************)
\* the characters ? ~ and y-diaeresis: valid UTF-8 whose encodings use the
\* symbols 62 and 63 and every padding length
Chars == {<<63>>, <<126>>, <<195, 191>>}

RECURSIVE TextsOf(_)
TextsOf(n) ==
  IF n = 0 THEN {<<>>}
  ELSE LET shorter == TextsOf(n - 1)
       IN shorter \cup {s \o c : s \in shorter, c \in Chars}

PlainTexts == TextsOf(MaxChars)

Malformed ==
  {Text("Pw"), Text("Pw="), Text("P"), Text("Px=="), Text("P==="),
   Text("===="), Text("Pz8"), Text("P+8="), Text("4A"), Text("4a"), Text("4"),
   Text("zz"), Text("ww=="), Text("ww"), Text("w78"), Text("Pw==Pw==")}

\* the encodings of the texts of one character less, and the malformed ones
EncodedTexts ==
  LET short == TextsOf(MaxChars - 1)
  IN {BASE64_encode(s) : s \in short}
       \cup {BASE64URL_encode(s) : s \in short}
       \cup {BASE64URL_NOPAD_encode(s) : s \in short}
       \cup {HEXLOWER_PERMISSIVE_encode(s) : s \in short}
       \cup Malformed

SchemaTexts ==
  {Text("{}"), Text("true"), Text("false"), Text("{\"type\":\"string\"}"),
   Text("{\"type\":[\"object\",\"null\"]}"),
   Text("{\"type\":\"object\",\"properties\":{\"x\":{\"type\":\"string\"}}}"),
   Text("{\"type\":12}"), Text("{\"type\":\"strin\"}"),
   Text("{\"properties\":{\"x\":12}}"), Text("12"), Text("null"), Text("[1,2]"),
   Text("\"a\"")}

BrokenTexts == {Text("not json"), Text("{"), Text("{\"type\":"), <<>>}

JsonTexts ==
  SchemaTexts \cup BrokenTexts
    \cup {Text("{\"x\":1}"), Text(" [ 1 , \"a\\\"b\" ] "), Text("01"),
          Text("{\"b\":1,\"a\":2,\"b\":3}")}

YamlTexts ==
  {Text("abc"), Text("12"), Text("null"), Text("true"), Text("{}"), Text("[1]"),
   Text("\"a\""), Text("{"), Text("[1"), Text("a b!")}

\* values that are not strings
Documents ==
  {Null, Number(12), Array(<<Number(1), String(Text("a"))>>),
   Object(<<<<String(Text("x")), Number(1)>>>>),
   Object(<<<<String(Text("x")), String(Text("s"))>>>>)}

\* schemas given as text, and some given as values
Schemas ==
  {String(t) : t \in SchemaTexts \cup BrokenTexts}
    \cup {from_json_str(t).v :
            t \in {Text("true"), Text("12"), Text("{\"type\":12}"),
                   Text("{\"type\":\"object\",\"properties\":{\"x\":{\"type\":\"string\"}}}")}}

Keys == {Text("a"), Text("b")}
Vals == {Text("1"), Text("2")}

RECURSIVE QueriesOf(_)
QueriesOf(n) ==
  IF n = 0 THEN {<<>>}
  ELSE LET shorter == QueriesOf(n - 1)
       IN shorter \cup {(IF q = <<>> THEN <<>> ELSE q \o Text("&"))
                          \o k \o Text("=") \o v :
                        q \in shorter, k \in Keys, v \in Vals}

QueryTexts ==
  QueriesOf(MaxPairs)
    \cup {Text("b=3&a"), Text("&&a=1=2&b&=c#d=1"), Text("a+b=%4a%zz&a+b=%c3"),
          Text("c=3&b=2&a=1&c=0"), Text("b=1&a=2&b=3")}

\* argument lists of every length up to MaxArgs over two values
Probes == {Null, String(Text("{}"))}

RECURSIVE ListsOf(_)
ListsOf(n) ==
  IF n = 0 THEN {<<>>}
  ELSE LET shorter == ListsOf(n - 1)
       IN shorter \cup {Append(l, p) : l \in {x \in shorter : Len(x) = n - 1},
                                       p \in Probes}

ProbeLists == ListsOf(MaxArgs)

One(values) == {<<v>> : v \in values} \cup ProbeLists

ArgLists(name) ==
  CASE name \in {"base64.encode", "base64url.encode", "base64url.encode_no_pad",
                 "hex.encode"} ->
         One({String(s) : s \in PlainTexts} \cup {Number(12)})
    [] name \in {"base64.decode", "base64.is_valid", "base64url.decode",
                 "hex.decode"} ->
         One({String(s) : s \in EncodedTexts} \cup {Number(12)})
    [] name = "urlquery.decode_object" ->
         One({String(s) : s \in QueryTexts} \cup {Number(12)})
    [] name \in {"json.is_valid", "json.unmarshal"} ->
         One({String(s) : s \in JsonTexts} \cup Documents)
    [] name = "json.marshal" ->
         One({String(s) : s \in BrokenTexts} \cup Documents)
    [] name \in {"yaml.is_valid", "yaml.unmarshal"} ->
         One({String(s) : s \in YamlTexts} \cup Documents)
    [] name = "yaml.marshal" ->
         One({String(Text("abc")), String(Text("12"))} \cup Documents)
    [] name = "json.verify_schema" -> One(Schemas)
    [] name = "json.match_schema" ->
         {<<d, sch>> : d \in Documents \cup {String(Text("s"))}, sch \in Schemas}
           \cup ProbeLists

(***************************************************************************)
(* The state machine: the registry is built once, then the evaluator calls *)
(* builtins it resolves by name                                            *)
(***************************************************************************)
NoCall == [name |-> "", args |-> <<>>, strict |-> FALSE]
NoResult == Done(<<>>, Ok(Null))

Init ==
  /\ features \in SUBSET Families
  /\ registry = <<>>
  /\ pc = "start"
  /\ call = NoCall
  /\ result = NoResult

Register ==
  /\ pc = "start"
  /\ registry' = register(registry, features)
  /\ pc' = "ready"
  /\ UNCHANGED <<features, call, result>>

Call(name) ==
  /\ pc = "ready"
  /\ name \in DOMAIN registry
  /\ \E args \in ArgLists(name), strict \in BOOLEAN :
       /\ call' = [name |-> name, args |-> args, strict |-> strict]
       /\ result' = Invoke(registry[name].fcn, args, strict)
  /\ pc' = "called"
  /\ UNCHANGED <<features, registry>>

\* the evaluator takes the result; nothing of the call is kept
Return ==
  /\ pc = "called"
  /\ pc' = "ready"
  /\ call' = NoCall
  /\ result' = NoResult
  /\ UNCHANGED <<features, registry>>

CallBase64Decode == Call("base64.decode")
CallBase64Encode == Call("base64.encode")
CallBase64IsValid == Call("base64.is_valid")
CallBase64UrlDecode == Call("base64url.decode")
CallBase64UrlEncode == Call("base64url.encode")
CallBase64UrlEncodeNoPad == Call("base64url.encode_no_pad")
CallHexDecode == Call("hex.decode")
CallHexEncode == Call("hex.encode")
CallUrlqueryDecodeObject == Call("urlquery.decode_object")
CallJsonIsValid == Call("json.is_valid")
CallJsonMarshal == Call("json.marshal")
CallJsonUnmarshal == Call("json.unmarshal")
CallJsonMatchSchema == Call("json.match_schema")
CallJsonVerifySchema == Call("json.verify_schema")
CallYamlIsValid == Call("yaml.is_valid")
CallYamlMarshal == Call("yaml.marshal")
CallYamlUnmarshal == Call("yaml.unmarshal")

Next ==
  \/ Register
  \/ CallBase64Decode
  \/ CallBase64Encode
  \/ CallBase64IsValid
  \/ CallBase64UrlDecode
  \/ CallBase64UrlEncode
  \/ CallBase64UrlEncodeNoPad
  \/ CallHexDecode
  \/ CallHexEncode
  \/ CallUrlqueryDecodeObject
  \/ CallJsonIsValid
  \/ CallJsonMarshal
  \/ CallJsonUnmarshal
  \/ CallJsonMatchSchema
  \/ CallJsonVerifySchema
  \/ CallYamlIsValid
  \/ CallYamlMarshal
  \/ CallYamlUnmarshal
  \/ Return

Spec == Init /\ [][Next]_vars

(***************************************************************************)
(* Properties                                                              *)
(***************************************************************************)
Called == pc = "called"
Out == result.out
Arity == registry[call.name].arity
SchemaBuiltins == {"json.verify_schema", "json.match_schema"}

\* the schema argument of a call of a schema builtin with the right arity
SchemaArg == call.args[Len(call.args)]

\* the JSON text a schema argument stands for
SchemaText(arg) == IF arg.t = "String" THEN arg.v ELSE to_json_text(arg)

SchemaParses(arg) == from_json_str(SchemaText(arg)).ok

\* the argument is usable as a schema: its text is JSON and the document is
\* a valid schema
SchemaUsable(arg) ==
  SchemaParses(arg) /\ ValidSchema(from_json_str(SchemaText(arg)).v)

SchemaCall == Called /\ call.name \in SchemaBuiltins /\ Len(call.args) = Arity

IsArityError(o) == ~o.ok /\ o.e.kind = "ArityError"
IsTypeError(o) == ~o.ok /\ o.e.kind = "TypeError"

\* the result is the array [false, x]
IsFalsePair(o) ==
  o.ok /\ o.v.t = "Array" /\ Len(o.v.v) = 2 /\ o.v.v[1] = Bool(FALSE)

\* C1: json.verify_schema with one argument returns [true, null] when the
\* schema compiles, fails with "invalid schema: ..." at the schema parameter's
\* span when it does not compile and strict is true, and returns
\* [false, <error text>] when it does not compile and strict is false.
C1_VerifySchemaOutcomes ==
  (Called /\ call.name = "json.verify_schema" /\ Len(call.args) = 1) =>
    IF SchemaUsable(call.args[1])
    THEN Out = Ok(Array(<<Bool(TRUE), Null>>))
    ELSE IF call.strict
    THEN /\ ~Out.ok
         /\ Out.e.span = ParamSpan(1)
         /\ HasPrefix(Out.e.msg, 1, Msg_invalid_schema)
    ELSE IsFalsePair(Out) /\ Out.v.v[2].t = "String"

C1_Witness ==
  /\ Called /\ call.name = "json.verify_schema" /\ Len(call.args) = 1
  /\ ~call.strict /\ ~SchemaUsable(call.args[1])
  /\ IsFalsePair(Out)

\* C2: json.match_schema with two arguments whose schema compiles never fails:
\* under both values of strict a mismatching document yields [false, <array of
\* at least one error string>] and a matching one [true, null]; when the schema
\* does not compile, strict makes the call fail and non-strict makes it return
\* a [false, ...] result.
C2_MatchSchemaNeverRaisesOnMismatch ==
  (Called /\ call.name = "json.match_schema" /\ Len(call.args) = 2) =>
    IF SchemaUsable(call.args[2])
    THEN LET errs == ValidationErrors(from_json_str(SchemaText(call.args[2])).v,
                                      call.args[1])
         IN IF errs = <<>>
            THEN Out = Ok(Array(<<Bool(TRUE), Null>>))
            ELSE /\ IsFalsePair(Out)
                 /\ Out.v.v[2].t = "Array"
                 /\ Len(Out.v.v[2].v) >= 1
                 /\ \A i \in 1..Len(Out.v.v[2].v) : Out.v.v[2].v[i].t = "String"
    ELSE IF call.strict THEN ~Out.ok ELSE IsFalsePair(Out)

C2_Witness ==
  /\ Called /\ call.name = "json.match_schema" /\ Len(call.args) = 2
  /\ call.strict /\ SchemaUsable(call.args[2])
  /\ IsFalsePair(Out) /\ Out.v.v[2].t = "Array"

\* C3: a call whose argument count differs from the declared arity of the
\* builtin fails with an arity error, and the arity check is the only step
\* the call executes, whatever the argument values are.
C3_ArityCheckedFirst ==
  (Called /\ Len(call.args) # Arity) =>
    /\ IsArityError(Out)
    /\ Out.e.expected = Arity
    /\ Out.e.actual = Len(call.args)
    /\ result.steps = <<"ensure_args_count">>

C3_Witness ==
  /\ Called /\ call.name = "base64.decode"
  /\ Len(call.args) = 2 /\ call.args[1].t # "String"
  /\ IsArityError(Out)

\* C4 as claimed: every builtin runs the arity check and then the string-type
\* check, so a call with the right number of arguments in which an argument is
\* not a string fails with a type error at that parameter's span.
C4_Original ==
  (Called /\ Len(call.args) = Arity
     /\ \E i \in 1..Len(call.args) : call.args[i].t # "String") =>
    /\ IsTypeError(Out)
    /\ \E i \in 1..Len(call.args) :
         call.args[i].t # "String" /\ Out.e.span = ParamSpan(i)
    /\ result.steps = <<"ensure_args_count", "ensure_string">>

NoStringCheck ==
  {"json.marshal", "yaml.marshal", "json.verify_schema", "json.match_schema"}

\* C4 amended: every builtin runs the arity check first; every builtin except
\* json.marshal, yaml.marshal, json.verify_schema and json.match_schema then
\* runs the string-type check on its argument and does no conversion work
\* when it fails (type error at the parameter's span); those four run no
\* string-type check and never fail with a type error.
C4_StringCheckWhereDeclared ==
  Called =>
    /\ result.steps[1] = "ensure_args_count"
    /\ (Len(call.args) = Arity /\ call.name \notin NoStringCheck) =>
         /\ result.steps[2] = "ensure_string"
         /\ call.args[1].t # "String" =>
              /\ IsTypeError(Out)
              /\ Out.e.span = ParamSpan(1)
              /\ result.steps = <<"ensure_args_count", "ensure_string">>
    /\ call.name \in NoStringCheck =>
         /\ ~IsTypeError(Out)
         /\ \A i \in 1..Len(result.steps) : result.steps[i] # "ensure_string"

C4_Witness ==
  /\ Called /\ call.name = "json.unmarshal"
  /\ Len(call.args) = 1 /\ call.args[1].t # "String"
  /\ IsTypeError(Out)

\* the decoder that undoes an encoder
DecodeOf(name, args, strict) ==
  CASE name = "base64.encode" -> base64_decode(args, strict)
    [] name = "hex.encode" -> hex_decode(args, strict)
    [] name \in {"base64url.encode", "base64url.encode_no_pad"} ->
         base64url_decode(args, strict)

Encoders ==
  {"base64.encode", "hex.encode", "base64url.encode", "base64url.encode_no_pad"}

\* C5: decoding the encoding of a string returns the string, for base64, hex
\* and base64url, padded and unpadded; so base64url.decode gives the padded
\* and the unpadded form of a payload the same result.
C5_DecodeUndoesEncode ==
  (Called /\ call.name \in Encoders
     /\ Len(call.args) = 1 /\ call.args[1].t = "String") =>
    /\ Out.ok
    /\ DecodeOf(call.name, <<Out.v>>, call.strict).out = Ok(call.args[1])

C5_Witness ==
  /\ Called /\ call.name = "base64url.encode_no_pad"
  /\ Len(call.args) = 1 /\ call.args[1].t = "String"
  /\ Out.ok /\ Len(Out.v.v) % 4 = 2
  /\ Out.v # base64url_encode(call.args, call.strict).out.v

\* the values paired with key k, in the order of the pairs
RECURSIVE ValuesFor(_, _)
ValuesFor(pairs, k) ==
  IF pairs = <<>> THEN <<>>
  ELSE (IF Head(pairs)[1] = k THEN <<String(Head(pairs)[2])>> ELSE <<>>)
         \o ValuesFor(Tail(pairs), k)

RECURSIVE TotalValues(_)
TotalValues(m) ==
  IF m = <<>> THEN 0 ELSE Len(Head(m)[2].v) + TotalValues(Tail(m))

QueryCall ==
  /\ Called /\ call.name = "urlquery.decode_object"
  /\ Len(call.args) = 1 /\ call.args[1].t = "String"

DecodedPairs == query_pairs(Url_parse(UrlPrefix \o call.args[1].v).v)

\* C6: urlquery.decode_object returns an object with one key per distinct
\* decoded key, under each key the array of the values paired with it in the
\* order of the pairs, as many array elements in total as there are pairs, and
\* the keys in lexicographic order.
C6_DecodeObjectGroupsAndSorts ==
  (QueryCall /\ Out.ok) =>
    LET m == Out.v.v
    IN /\ Out.v.t = "Object"
       /\ {m[i][1] : i \in 1..Len(m)}
            = {String(DecodedPairs[j][1]) : j \in 1..Len(DecodedPairs)}
       /\ \A i \in 1..Len(m) :
            m[i][2] = Array(ValuesFor(DecodedPairs, m[i][1].v))
       /\ TotalValues(m) = Len(DecodedPairs)
       /\ \A i, j \in 1..Len(m) : i < j => StrLess(m[i][1].v, m[j][1].v)

C6_Witness ==
  /\ QueryCall /\ Out.ok
  /\ Len(Out.v.v) = 2
  /\ DecodedPairs[1][1] = Out.v.v[2][1].v
  /\ Len(Out.v.v[2][2].v) = 2

\* the text of the compilation error a schema call reports
CompileErrorText ==
  IF call.strict
  THEN SubSeq(Out.e.msg, Len(Msg_invalid_schema) + 1, Len(Out.e.msg))
  ELSE Out.v.v[2].v

\* C7 as claimed: compilation of a schema input that is not usable fails with
\* an error citing "not a valid json schema", both when the text is not JSON
\* and when it is JSON that is not a valid schema document.
C7_Original ==
  (SchemaCall /\ ~SchemaUsable(SchemaArg)) => CompileErrorText = Msg_not_schema

\* C7 amended: compilation of a schema input that is not usable fails; the
\* error cites "not a valid json schema" when the schema text is not JSON, and
\* is the schema compiler's own message when the text is JSON that is not a
\* valid schema document.
C7_CompileErrorByCause ==
  (SchemaCall /\ ~SchemaUsable(SchemaArg)) =>
    /\ call.strict => ~Out.ok
    /\ ~call.strict => IsFalsePair(Out) /\ Out.v.v[2].t = "String"
    /\ ~SchemaParses(SchemaArg) => CompileErrorText = Msg_not_schema
    /\ SchemaParses(SchemaArg) =>
         /\ CompileErrorText = LibMsg.bad_schema
         /\ CompileErrorText # Msg_not_schema

C7_Witness ==
  /\ SchemaCall /\ call.name = "json.verify_schema" /\ ~call.strict
  /\ SchemaParses(SchemaArg) /\ ~SchemaUsable(SchemaArg)
  /\ Out = Ok(Array(<<Bool(FALSE), String(LibMsg.bad_schema)>>))

\* C8: an arity error or a type error names the builtin that was invoked: the
\* name the body passes to the checks is the name of its registry entry.
C8_ErrorNamesTheBuiltin ==
  (Called /\ (IsArityError(Out) \/ IsTypeError(Out))) => Out.e.name = call.name

AlwaysNames == {"json.is_valid", "json.marshal", "json.unmarshal"}

FamilyNames(f) ==
  CASE f = "base64" -> {"base64.decode", "base64.encode", "base64.is_valid"}
    [] f = "base64url" ->
         {"base64url.decode", "base64url.encode", "base64url.encode_no_pad"}
    [] f = "hex" -> {"hex.decode", "hex.encode"}
    [] f = "urlquery" -> {"urlquery.decode_object"}
    [] f = "jsonschema" -> {"json.match_schema", "json.verify_schema"}
    [] f = "yaml" -> {"yaml.is_valid", "yaml.marshal", "yaml.unmarshal"}

\* C9: after register the names that resolve are the three json builtins and
\* the builtins of the enabled families and no others, and the declared arity
\* of an entry (2 for json.match_schema, 1 otherwise) is the argument count
\* its body enforces.
C9_RegistryMatchesFeatures ==
  pc # "start" =>
    /\ DOMAIN registry = AlwaysNames \cup UNION {FamilyNames(f) : f \in features}
    /\ \A n \in DOMAIN registry :
         registry[n].arity = IF n = "json.match_schema" THEN 2 ELSE 1
    /\ Called =>
         /\ IsArityError(Out) <=> Len(call.args) # Arity
         /\ IsArityError(Out) => Out.e.expected = Arity

C9_Witness ==
  /\ Called /\ call.name = "json.match_schema"
  /\ "yaml" \notin features /\ "yaml.marshal" \notin DOMAIN registry
  /\ Len(call.args) = 2 /\ ~IsArityError(Out)

\* C10: strict changes the outcome of a call only through a failed schema
\* compilation: for a builtin other than the two schema builtins, and for
\* those two when the arity is wrong or the schema compiles, the call with the
\* other value of strict gives the same result or the same failure.
C10_StrictOnlyThroughCompileFailure ==
  (Called /\ (\/ call.name \notin SchemaBuiltins
              \/ Len(call.args) # Arity
              \/ SchemaUsable(SchemaArg))) =>
    Invoke(registry[call.name].fcn, call.args, ~call.strict) = result

C10_Witness ==
  /\ SchemaCall /\ call.name = "json.verify_schema"
  /\ call.strict /\ SchemaUsable(SchemaArg) /\ Out.ok

====
